---- MODULE Spec2Model ----
(***************************************************************************)
(* dspc.Progress: a lock-free set of named int64 counters.                 *)
(*                                                                         *)
(* The store is one atomic pointer to an immutable progressState (a map    *)
(* from key to a counter cell plus the keys in sorted order).  A new key   *)
(* is added by copying the state and publishing the copy with a            *)
(* compare-and-swap; counter cells are updated in place with atomic        *)
(* add/store.  Every atomic operation of the code is one action here; the  *)
(* thread-local code around an atomic operation belongs to its action.     *)
(*                                                                         *)
(* The renderer: PrettyPrintEvery starts a goroutine that renders the      *)
(* store into Progress.buf and writes the buffer to a sink, at once, on    *)
(* every tick and a last time when the returned stop function is called.   *)
(* The buffer is a sequence of bytes; the sink keeps every Write it got.   *)
(***************************************************************************)
EXTENDS Integers, Sequences, FiniteSets, TLC

(***************************************************************************)
(* Bounds and input sets                                                   *)
(***************************************************************************)
\* the goroutines of the concurrent specification: two that write, one that
\* reads (the workers and the printer of the README's example), and the
\* calls they make in one run
WriterProcs == {1, 2}
ReaderProcs == {3}
Procs == WriterProcs \cup ReaderProcs
MaxOps == 3

\* the calls of the single goroutine of the sequential specification
MaxSeqOps == 5

\* TestConcurrency: the test's goroutine, its workers, the calls of one worker
Main == 0
MaxWorkers == 2
MaxIters == 2
Workers == 1 .. MaxWorkers
HotKey == "a"

\* the goroutines started by PrettyPrintEvery (one per call), the ticks one
\* of them receives from its ticker, and the calls the worker makes while a
\* loop runs
Printers == {4, 5}
MaxTicks == 1
MaxPrintOps == 1
\* further calls of a stop function after its first call
MaxStopAgain == 1

Threads == {Main} \cup Workers \cup Procs \cup Printers

\* "a", "ab", "b": a key, a key it is a proper prefix of, and a later key
Keys == {"a", "ab", "b"}

\* arguments of Inc and Set in the concurrent specification
Deltas == {1}
Values == {5}

\* keys and arguments in the sequential specification
SeqKeys == Keys
SeqDeltas == {1, -2}
SeqValues == {5}

Nil == 0

(***************************************************************************)
(* Strings: Go compares strings byte by byte (cmp.Less on string).         *)
(***************************************************************************)
KeyBytes(k) ==
    CASE k = "a"  -> <<97>>
      [] k = "ab" -> <<97, 98>>
      [] k = "b"  -> <<98>>

RECURSIVE BytesLess(_, _)
BytesLess(x, y) ==
    IF y = <<>> THEN FALSE
    ELSE IF x = <<>> THEN TRUE
    ELSE IF Head(x) # Head(y) THEN Head(x) < Head(y)
    ELSE BytesLess(Tail(x), Tail(y))

StrLess(a, b) == BytesLess(KeyBytes(a), KeyBytes(b))

(***************************************************************************)
(* util.go                                                                 *)
(***************************************************************************)
\* slices.BinarySearch(s, v): bisection on indices i..j (0-based, j
\* exclusive); returns the position where v is found or would be inserted.
RECURSIVE BinarySearchFrom(_, _, _, _)
BinarySearchFrom(s, v, i, j) ==
    IF i < j
    THEN LET h == (i + j) \div 2
         IN  IF StrLess(s[h + 1], v)
             THEN BinarySearchFrom(s, v, h + 1, j)
             ELSE BinarySearchFrom(s, v, i, h)
    ELSE i

\* a bug: the search always answers position 0
BinarySearch_Zero(s, v) == 0

BinarySearch(s, v) == BinarySearchFrom(s, v, 0, Len(s))

\* a bug: the new value is appended instead of inserted at its position
cloneSortedSliceAndInsert_Append(s, v) == Append(s, v)

\* res := make([]T, len(s)+1); copy(res, s[:pos]); res[pos] = v;
\* copy(res[pos+1:], s[pos:])
cloneSortedSliceAndInsert(s, v) ==
    LET pos == BinarySearch(s, v)
    IN  SubSeq(s, 1, pos) \o <<v>> \o SubSeq(s, pos + 1, Len(s))

\* slices.Sorted(seq): the values of a set in ascending order, smallest first
RECURSIVE Sorted(_)
Sorted(S) ==
    IF S = {} THEN <<>>
    ELSE LET least == CHOOSE x \in S : \A y \in S \ {x} : StrLess(x, y)
         IN  <<least>> \o Sorted(S \ {least})

\* the earlier getOrCreateCounter rebuilt the key list from the map:
\* s.sortedKeys = slices.Sorted(maps.Keys(s.counters))
rebuildSortedKeys(counters) == Sorted(DOMAIN counters)

(***************************************************************************)
(* State                                                                   *)
(***************************************************************************)
VARIABLES
    state,       \* Progress.state: Nil or the index in heap of the current progressState
    heap,        \* the progressState objects published so far, in publication order
    mem,         \* the int64 cells allocated so far (new(int64)): cell id -> value
    pc,          \* where each goroutine is
    op,          \* the call a goroutine is in: [kind, key, arg]
    loaded,      \* getOrCreateCounter's local `state`
    newCounter,  \* getOrCreateCounter's local `newCounter`
    newState,    \* getOrCreateCounter's local `newState` (not yet published)
    c,           \* the cell a goroutine holds (Inc/Set's `c`, Get's `counter`)
    it,          \* the running All() iterator: [st, i, out]
    res,         \* the result of the last call a goroutine completed
    log,         \* history: per key, the adds/stores in the order they took effect
    nops,        \* history: number of calls made so far
    cfg,         \* the stress test's parameters [N, M] (0, 0 outside it)
    buf,         \* Progress.buf: the bytes of the render being built
    entries,     \* Progress.entries: the [key, value] pairs of the render being built
    lv,          \* per PrettyPrintEvery goroutine: title, and prettyPrint's
                 \* inPlace, maxKeySize, maxValueSize
    stop,        \* per PrettyPrintEvery call: the stop channel is closed
    done,        \* per PrettyPrintEvery call: the done channel is closed
    caller,      \* where the goroutine holding the returned stop function is
    ticks,       \* per loop: the ticks received from ticker.C so far
    sink,        \* per loop: the Write calls its writer w received, in order
    started,     \* history: per loop, the number of prettyPrint calls begun
    hist         \* history: per loop, what held when the stop function was
                 \* called (at), how many writes w had received when it
                 \* returned (ret), how many further calls of it were made
                 \* (again) and how many of them panicked (panics)

printVars == <<buf, entries, lv, stop, done, caller, ticks, sink, started, hist>>

vars == <<state, heap, mem, pc, op, loaded, newCounter, newState, c, it, res,
          log, nops, cfg, printVars>>

NoOp == [kind |-> "none"]
NoState == [counters |-> <<>>, sortedKeys |-> <<>>]
NoIter == [st |-> Nil, i |-> 0, out |-> <<>>, at |-> <<>>]
NoLocals == [title |-> <<>>, inPlace |-> FALSE, maxKeySize |-> 0, maxValueSize |-> 0]
NoHist == [at |-> <<>>, ret |-> 0, again |-> 0, panics |-> 0]

\* no PrettyPrintEvery call has been made
InitPrint ==
    /\ buf = <<>>
    /\ entries = <<>>
    /\ lv = [l \in Printers |-> NoLocals]
    /\ stop = [l \in Printers |-> FALSE]
    /\ done = [l \in Printers |-> FALSE]
    /\ caller = [l \in Printers |-> "none"]
    /\ ticks = [l \in Printers |-> 0]
    /\ sink = [l \in Printers |-> <<>>]
    /\ started = [l \in Printers |-> 0]
    /\ hist = [l \in Printers |-> NoHist]

Init ==
    /\ state = Nil
    /\ heap = <<>>
    /\ mem = <<>>
    /\ pc = [t \in Threads |-> IF t \in Printers THEN "off" ELSE "idle"]
    /\ op = [t \in Threads |-> NoOp]
    /\ loaded = [t \in Threads |-> Nil]
    /\ newCounter = [t \in Threads |-> Nil]
    /\ newState = [t \in Threads |-> NoState]
    /\ c = [t \in Threads |-> Nil]
    /\ it = [t \in Threads |-> NoIter]
    /\ res = [t \in Threads |-> NoOp]
    /\ log = [k \in Keys |-> <<>>]
    /\ nops = 0
    /\ cfg = [N |-> 0, M |-> 0]
    /\ InitPrint

(***************************************************************************)
(* Reading the store                                                       *)
(***************************************************************************)
\* state.counters[key] for a possibly nil state: the cell, or Nil
Lookup(st, key) ==
    IF st # Nil /\ key \in DOMAIN heap[st].counters
    THEN heap[st].counters[key]
    ELSE Nil

\* len(state.counters) of the current state
size == IF state = Nil THEN 0 ELSE Cardinality(DOMAIN heap[state].counters)

\* the value a counter holds now (0 when the key is not registered)
ValueNow(key) ==
    IF Lookup(state, key) = Nil THEN 0 ELSE mem[Lookup(state, key)]

(***************************************************************************)
(* History                                                                 *)
(***************************************************************************)
Writers == {t \in Threads : op[t].kind \in {"inc", "set"}}

\* the keys passed to Inc or Set so far (completed or in progress)
UsedKeys ==
    {k \in Keys : log[k] # <<>>} \cup {op[t].key : t \in Writers}

\* the sequential replay of a key's adds and stores, starting from 0
RECURSIVE Replay(_)
Replay(ops) ==
    IF ops = <<>> THEN 0
    ELSE LET prev == Replay(SubSeq(ops, 1, Len(ops) - 1))
             last == ops[Len(ops)]
         IN  IF last.kind = "inc" THEN prev + last.arg ELSE last.arg

LogLens == [k \in Keys |-> Len(log[k])]

(***************************************************************************)
(* Inc, Set and getOrCreateCounter                                         *)
(***************************************************************************)
\* a goroutine makes call o; the call's first atomic operation is part of
\* the same step
Begin(t, o) ==
    /\ pc[t] = "idle"
    /\ op' = [op EXCEPT ![t] = o]
    /\ nops' = nops + 1

\* a bug: the fast path is never taken, every call adds the key again
HappyPath_Never(st, key) == FALSE

\* the happy path: the loaded state contains the key
HappyPath(st, key) == Lookup(st, key) # Nil

\* one pass of the loop up to the compare-and-swap: load the state, return
\* the cell when the key is there, otherwise build the new state
LoadPass(t, key) ==
    LET st == state
    IN  IF HappyPath(st, key)
        THEN /\ c' = [c EXCEPT ![t] = Lookup(st, key)]
             /\ pc' = [pc EXCEPT ![t] = "write"]
             /\ UNCHANGED <<mem, loaded, newCounter, newState>>
        ELSE LET cell == Len(mem) + 1
             IN  /\ mem' = Append(mem, 0)
                 /\ newCounter' = [newCounter EXCEPT ![t] = cell]
                 /\ newState' = [newState EXCEPT ![t] =
                       IF st # Nil
                       THEN [counters |-> (key :> cell) @@ heap[st].counters,
                             sortedKeys |->
                                 cloneSortedSliceAndInsert(heap[st].sortedKeys, key)]
                       ELSE [counters |-> (key :> cell),
                             sortedKeys |-> <<key>>]]
                 /\ loaded' = [loaded EXCEPT ![t] = st]
                 /\ pc' = [pc EXCEPT ![t] = "cas"]
                 /\ UNCHANGED c

\* p.Inc(key, delta) is called and makes its first pass
Inc(t, key, delta) ==
    /\ Begin(t, [kind |-> "inc", key |-> key, arg |-> delta])
    /\ LoadPass(t, key)
    /\ res' = [res EXCEPT ![t] = NoOp]
    /\ UNCHANGED <<state, heap, it, log, cfg, printVars>>

\* p.Set(key, value) is called and makes its first pass
Set(t, key, value) ==
    /\ Begin(t, [kind |-> "set", key |-> key, arg |-> value])
    /\ LoadPass(t, key)
    /\ res' = [res EXCEPT ![t] = NoOp]
    /\ UNCHANGED <<state, heap, it, log, cfg, printVars>>

\* the next pass of the loop, after a failed compare-and-swap
GetOrCreateRetry(t) ==
    /\ pc[t] = "goc"
    /\ LoadPass(t, op[t].key)
    /\ UNCHANGED <<state, heap, op, it, res, log, nops, cfg, printVars>>

\* a bug: the swap compares with the wrong pointer and never succeeds
CompareAndSwap_Never(t) == FALSE

\* a bug: the new state is stored without comparing
CompareAndSwap_Store(t) == TRUE

\* p.state.CompareAndSwap(state, newState)
CompareAndSwap(t) == state = loaded[t]

\* a bug: the result of the compare-and-swap is ignored and newCounter is
\* returned also when the swap failed
GetOrCreateCAS_IgnoreFailure(t) ==
    /\ pc[t] = "cas"
    /\ IF CompareAndSwap(t)
       THEN /\ heap' = Append(heap, newState[t])
            /\ state' = Len(heap) + 1
       ELSE UNCHANGED <<state, heap>>
    /\ c' = [c EXCEPT ![t] = newCounter[t]]
    /\ pc' = [pc EXCEPT ![t] = "write"]
    /\ loaded' = [loaded EXCEPT ![t] = Nil]
    /\ newCounter' = [newCounter EXCEPT ![t] = Nil]
    /\ newState' = [newState EXCEPT ![t] = NoState]
    /\ UNCHANGED <<mem, op, it, res, log, nops, cfg, printVars>>

GetOrCreateCAS(t) ==
    /\ pc[t] = "cas"
    /\ IF CompareAndSwap(t)
       THEN /\ heap' = Append(heap, newState[t])
            /\ state' = Len(heap) + 1
            /\ c' = [c EXCEPT ![t] = newCounter[t]]
            /\ pc' = [pc EXCEPT ![t] = "write"]
       ELSE /\ pc' = [pc EXCEPT ![t] = "goc"]
            /\ UNCHANGED <<state, heap, c>>
    /\ loaded' = [loaded EXCEPT ![t] = Nil]
    /\ newCounter' = [newCounter EXCEPT ![t] = Nil]
    /\ newState' = [newState EXCEPT ![t] = NoState]
    /\ UNCHANGED <<mem, op, it, res, log, nops, cfg, printVars>>

Finish(t, r) ==
    /\ pc' = [pc EXCEPT ![t] = "idle"]
    /\ op' = [op EXCEPT ![t] = NoOp]
    /\ res' = [res EXCEPT ![t] = r]

\* a bug: Inc overwrites the counter with delta
IncAdd_Store(t) ==
    /\ pc[t] = "write"
    /\ op[t].kind = "inc"
    /\ mem' = [mem EXCEPT ![c[t]] = op[t].arg]
    /\ log' = [log EXCEPT ![op[t].key] =
                  Append(@, [kind |-> "inc", arg |-> op[t].arg, by |-> t])]
    /\ c' = [c EXCEPT ![t] = Nil]
    /\ Finish(t, NoOp)
    /\ UNCHANGED <<state, heap, loaded, newCounter, newState, it, nops, cfg, printVars>>

\* atomic.AddInt64(c, delta); Inc returns.  (int64 wraps at 2^63; the values
\* reached here stay far inside that range.)
IncAdd(t) ==
    /\ pc[t] = "write"
    /\ op[t].kind = "inc"
    /\ mem' = [mem EXCEPT ![c[t]] = @ + op[t].arg]
    /\ log' = [log EXCEPT ![op[t].key] =
                  Append(@, [kind |-> "inc", arg |-> op[t].arg, by |-> t])]
    /\ c' = [c EXCEPT ![t] = Nil]
    /\ Finish(t, NoOp)
    /\ UNCHANGED <<state, heap, loaded, newCounter, newState, it, nops, cfg, printVars>>

\* atomic.StoreInt64(c, value); Set returns
SetStore(t) ==
    /\ pc[t] = "write"
    /\ op[t].kind = "set"
    /\ mem' = [mem EXCEPT ![c[t]] = op[t].arg]
    /\ log' = [log EXCEPT ![op[t].key] =
                  Append(@, [kind |-> "set", arg |-> op[t].arg, by |-> t])]
    /\ c' = [c EXCEPT ![t] = Nil]
    /\ Finish(t, NoOp)
    /\ UNCHANGED <<state, heap, loaded, newCounter, newState, it, nops, cfg, printVars>>

(***************************************************************************)
(* Get                                                                     *)
(***************************************************************************)
\* what Get returned (val), with its history: the number of the call, whether
\* the key was registered, and how many adds/stores to key had taken effect
\* when Get loaded the state (lo) and when it returned (hi)
GetResult(call, key, found, val, lo) ==
    [kind |-> "get", call |-> call, key |-> key, found |-> found, val |-> val,
     lo |-> lo, hi |-> Len(log[key])]

\* a bug: Get registers a key it does not find (as a map with default would)
Get_Creating(t, key) ==
    /\ pc[t] = "idle"
    /\ nops' = nops + 1
    /\ IF Lookup(state, key) = Nil
       THEN /\ mem' = Append(mem, 0)
            /\ heap' = Append(heap,
                  IF state # Nil
                  THEN [counters |-> (key :> (Len(mem) + 1)) @@ heap[state].counters,
                        sortedKeys |->
                            cloneSortedSliceAndInsert(heap[state].sortedKeys, key)]
                  ELSE [counters |-> (key :> (Len(mem) + 1)),
                        sortedKeys |-> <<key>>])
            /\ state' = Len(heap) + 1
            /\ res' = [res EXCEPT ![t] =
                          GetResult(nops + 1, key, FALSE, 0, Len(log[key]))]
       ELSE /\ res' = [res EXCEPT ![t] =
                          GetResult(nops + 1, key, TRUE, mem[Lookup(state, key)],
                                    Len(log[key]))]
            /\ UNCHANGED <<state, heap, mem>>
    /\ UNCHANGED <<pc, op, c, loaded, newCounter, newState, it, log, cfg, printVars>>

\* p.Get(key): state := p.state.Load(); counter := state.counters[key];
\* returns 0 when either is nil.  lo: how many adds/stores to key had taken
\* effect when Get loaded the state
Get(t, key) ==
    /\ LET counter == Lookup(state, key)
       IN  IF counter = Nil
           THEN /\ pc[t] = "idle"
                /\ nops' = nops + 1
                /\ res' = [res EXCEPT ![t] =
                              GetResult(nops + 1, key, FALSE, 0, Len(log[key]))]
                /\ UNCHANGED <<pc, op, c>>
           ELSE /\ Begin(t, [kind |-> "get", call |-> nops + 1, key |-> key,
                           lo |-> Len(log[key])])
                /\ c' = [c EXCEPT ![t] = counter]
                /\ pc' = [pc EXCEPT ![t] = "get_value"]
                /\ res' = [res EXCEPT ![t] = NoOp]
    /\ UNCHANGED <<state, heap, mem, loaded, newCounter, newState, it, log, cfg, printVars>>

\* return atomic.LoadInt64(counter)
GetValue(t) ==
    /\ pc[t] = "get_value"
    /\ Finish(t, GetResult(op[t].call, op[t].key, TRUE, mem[c[t]], op[t].lo))
    /\ c' = [c EXCEPT ![t] = Nil]
    /\ UNCHANGED <<state, heap, mem, loaded, newCounter, newState, it, log, nops, cfg, printVars>>

(***************************************************************************)
(* All: the iterator, ranged over to its end (as prettyPrint does)         *)
(***************************************************************************)
\* history at the moment the iterator loaded the state
AtLoad == [lens |-> LogLens]

\* what one run of the iterator yielded (out), with its history: the state it
\* loaded (st), what held at the load (at), the current state at its end (end)
AllResult(call, st, out, at) ==
    [kind |-> "all", call |-> call, st |-> st, out |-> out, at |-> at,
     end |-> state]

\* the iterator function is called: state := p.state.Load(); nothing is
\* yielded when it is nil
All(t) ==
    /\ IF state = Nil
       THEN /\ pc[t] = "idle"
            /\ nops' = nops + 1
            /\ res' = [res EXCEPT ![t] = AllResult(nops + 1, Nil, <<>>, AtLoad)]
            /\ UNCHANGED <<pc, op, it>>
       ELSE /\ Begin(t, [kind |-> "all", call |-> nops + 1])
            /\ it' = [it EXCEPT ![t] = [st |-> state, i |-> 1, out |-> <<>>,
                                         at |-> AtLoad]]
            /\ pc' = [pc EXCEPT ![t] = "all_visit"]
            /\ res' = [res EXCEPT ![t] = NoOp]
    /\ UNCHANGED <<state, heap, mem, loaded, newCounter, newState, c, log, cfg, printVars>>

\* a bug: every pass of the loop loads p.state again
IterState_Reload(t) == state

\* the state whose sortedKeys the loop ranges over
IterState(t) == it[t].st

\* a bug: the values are those the counters held when the state was loaded
VisitValue_AtLoad(t, key) == Replay(SubSeq(log[key], 1, it[t].at.lens[key]))

\* atomic.LoadInt64(state.counters[key]) in the loop
VisitValue(t, key) == mem[heap[IterState(t)].counters[key]]

\* one pass of the loop: yield(key, atomic.LoadInt64(state.counters[key]));
\* seen: how many adds/stores to key had taken effect at this load
AllVisit(t) ==
    /\ pc[t] = "all_visit"
    /\ LET st == heap[IterState(t)]
           key == st.sortedKeys[it[t].i]
           out == Append(it[t].out,
                         [key |-> key, value |-> VisitValue(t, key),
                          seen |-> Len(log[key])])
       IN  IF it[t].i < Len(st.sortedKeys)
           THEN /\ it' = [it EXCEPT ![t].i = @ + 1, ![t].out = out]
                /\ UNCHANGED <<pc, op, res>>
           ELSE /\ it' = [it EXCEPT ![t] = NoIter]
                /\ Finish(t, AllResult(op[t].call, it[t].st, out, it[t].at))
    /\ UNCHANGED <<state, heap, mem, loaded, newCounter, newState, c, log, nops, cfg, printVars>>

(***************************************************************************)
(* betterBuffer and digitCount (util.go); the buffer is a sequence of      *)
(* bytes                                                                   *)
(***************************************************************************)
\* n / 10 in Go: the quotient is truncated toward zero
Quo10(n) == IF n >= 0 THEN n \div 10 ELSE -((-n) \div 10)

\* the passes of digitCount's loop: for n != 0 { n /= 10; count++ }
RECURSIVE DivCount(_)
DivCount(n) == IF n = 0 THEN 0 ELSE 1 + DivCount(Quo10(n))

\* a bug: the minus sign is not counted
digitCount_NoSign(n) == IF n = 0 THEN 1 ELSE DivCount(n)

digitCount(n) ==
    IF n = 0 THEN 1
    ELSE (IF n < 0 THEN 1 ELSE 0) + DivCount(n)

\* the decimal digits of n >= 0, most significant first ('0' is byte 48)
RECURSIVE Digits(_)
Digits(n) ==
    IF n < 10 THEN <<48 + n>>
    ELSE Digits(n \div 10) \o <<48 + (n % 10)>>

\* strconv.AppendInt(data[:0], n, 10), the bytes WriteInt64 and WriteInt
\* append ('-' is byte 45)
WriteInt64(n) == IF n < 0 THEN <<45>> \o Digits(-n) ELSE Digits(n)

\* the bytes WriteByteRepeated(c, n) appends for n >= 0: n times c.  (For
\* n < 0 the code's data[:n] panics; nothing is appended here.)
WriteByteRepeated(b, n) == [i \in 1 .. n |-> b]

(***************************************************************************)
(* prettyPrint                                                             *)
(***************************************************************************)
\* "\033[J", "\033[", "A", "\n", "  "
ClearToEnd == <<27, 91, 74>>
CSI == <<27, 91>>
CursorUpEnd == <<65>>
LF == <<10>>
Indent == <<32, 32>>

Max(a, b) == IF a >= b THEN a ELSE b

\* a bug: the buffer is not reset, a render is appended to the previous one
Reset_Keep == buf

\* p.buf.Reset()
Reset == <<>>

\* a bug, as in the earlier two-pass prettyPrintToBuffer: the line is written
\* from the value the counter holds when the line is written, not from the
\* value that was measured
EntryLine_Reload(ent, maxKeySize, maxValueSize) ==
    Indent \o KeyBytes(ent.key)
           \o WriteByteRepeated(32, maxKeySize - Len(KeyBytes(ent.key)))
           \o Indent
           \o WriteByteRepeated(32, maxValueSize - digitCount(ValueNow(ent.key)))
           \o WriteInt64(ValueNow(ent.key))
           \o LF

\* the body of `for _, ent := range p.entries`: one line of the report
EntryLine(ent, maxKeySize, maxValueSize) ==
    Indent \o KeyBytes(ent.key)
           \o WriteByteRepeated(32, maxKeySize - Len(KeyBytes(ent.key)))
           \o Indent
           \o WriteByteRepeated(32, maxValueSize - digitCount(ent.value))
           \o WriteInt64(ent.value)
           \o LF

RECURSIVE EntryLines(_, _, _)
EntryLines(ents, maxKeySize, maxValueSize) ==
    IF ents = <<>> THEN <<>>
    ELSE EntryLine(Head(ents), maxKeySize, maxValueSize)
             \o EntryLines(Tail(ents), maxKeySize, maxValueSize)

\* a bug: the cursor moves up by the number of counters the store holds when
\* the buffer is built
CursorUp_Size == size + 3

\* len(p.entries) + 3
CursorUp == Len(entries) + 3

\* prettyPrint is entered: p.buf.Reset(); p.entries = p.entries[:0]; the
\* sizes start at 0; p.All() loads the state (nothing is yielded when it is
\* nil)
prettyPrintLoad(l, inPlace) ==
    /\ buf' = Reset
    /\ entries' = <<>>
    /\ lv' = [lv EXCEPT ![l].inPlace = inPlace,
                        ![l].maxKeySize = 0,
                        ![l].maxValueSize = 0]
    /\ it' = [it EXCEPT ![l] = [st |-> state, i |-> 1, out |-> <<>>,
                                 at |-> AtLoad]]
    /\ pc' = [pc EXCEPT ![l] = IF state = Nil THEN "pp_build" ELSE "pp_visit"]
    /\ started' = [started EXCEPT ![l] = @ + 1]

\* a bug: the render reads a counter and resets it (atomic.SwapInt64(c, 0))
prettyPrintVisit_Swap(l) ==
    /\ pc[l] = "pp_visit"
    /\ LET st == heap[IterState(l)]
           key == st.sortedKeys[it[l].i]
           value == VisitValue(l, key)
       IN  /\ entries' = Append(entries, [key |-> key, value |-> value])
           /\ lv' = [lv EXCEPT
                  ![l].maxKeySize = Max(@, Len(KeyBytes(key))),
                  ![l].maxValueSize = Max(@, digitCount(value))]
           /\ it' = [it EXCEPT
                  ![l].i = @ + 1,
                  ![l].out = Append(@, [key |-> key, value |-> value,
                                        seen |-> Len(log[key])])]
           /\ mem' = [mem EXCEPT ![st.counters[key]] = 0]
           /\ pc' = [pc EXCEPT ![l] =
                  IF it[l].i < Len(st.sortedKeys) THEN "pp_visit" ELSE "pp_build"]
    /\ UNCHANGED <<state, heap, op, loaded, newCounter, newState, c, res,
                   log, nops, cfg>>
    /\ UNCHANGED <<buf, stop, done, caller, ticks, sink, started, hist>>

\* one pass of `for key, value := range p.All()`: the iterator loads the
\* counter and yields; the body appends the entry and updates the sizes.
\* it[l].out keeps, with each entry, how many adds/stores to its key had
\* taken effect at the load (seen)
prettyPrintVisit(l) ==
    /\ pc[l] = "pp_visit"
    /\ LET st == heap[IterState(l)]
           key == st.sortedKeys[it[l].i]
           value == VisitValue(l, key)
       IN  /\ entries' = Append(entries, [key |-> key, value |-> value])
           /\ lv' = [lv EXCEPT
                  ![l].maxKeySize = Max(@, Len(KeyBytes(key))),
                  ![l].maxValueSize = Max(@, digitCount(value))]
           /\ it' = [it EXCEPT
                  ![l].i = @ + 1,
                  ![l].out = Append(@, [key |-> key, value |-> value,
                                        seen |-> Len(log[key])])]
           /\ pc' = [pc EXCEPT ![l] =
                  IF it[l].i < Len(st.sortedKeys) THEN "pp_visit" ELSE "pp_build"]
    /\ UNCHANGED <<state, heap, mem, op, loaded, newCounter, newState, c, res,
                   log, nops, cfg>>
    /\ UNCHANGED <<buf, stop, done, caller, ticks, sink, started, hist>>

\* the buffer is filled: "\033[J", a blank line, the title, one line per
\* entry, a blank line and, in place, "\033[<n>A"
prettyPrintBuild(l) ==
    /\ pc[l] = "pp_build"
    /\ buf' = buf \o ClearToEnd
                  \o LF
                  \o lv[l].title \o LF
                  \o EntryLines(entries, lv[l].maxKeySize, lv[l].maxValueSize)
                  \o LF
                  \o (IF lv[l].inPlace
                      THEN CSI \o WriteInt64(CursorUp) \o CursorUpEnd
                      ELSE <<>>)
    /\ pc' = [pc EXCEPT ![l] = "pp_write"]
    /\ UNCHANGED <<state, heap, mem, op, loaded, newCounter, newState, c, it,
                   res, log, nops, cfg>>
    /\ UNCHANGED <<entries, lv, stop, done, caller, ticks, sink, started, hist>>

\* a bug: the loop goes on after a failed write
LoopExits_IgnoreError(inPlace, ok) == ~inPlace

\* the goroutine returns after this render: after the render of the stop
\* case, and after any render whose write returned an error
LoopExits(inPlace, ok) == ~inPlace \/ ~ok

\* a bug: done is closed on the stop path only, not by a deferred call, so
\* it stays open when the loop returns after a failed write
prettyPrintWrite_NoDefer(l) ==
    /\ pc[l] = "pp_write"
    /\ \E ok \in BOOLEAN :
          /\ sink' = [sink EXCEPT ![l] =
                 Append(@, [p |-> buf, ok |-> ok, inPlace |-> lv[l].inPlace,
                            title |-> lv[l].title, own |-> it[l].out,
                            during |-> (state # it[l].st)])]
          /\ IF LoopExits(lv[l].inPlace, ok)
             THEN /\ pc' = [pc EXCEPT ![l] = "exited"]
                  /\ done' = [done EXCEPT ![l] = ~lv[l].inPlace]
             ELSE /\ pc' = [pc EXCEPT ![l] = "select"]
                  /\ UNCHANGED done
    /\ it' = [it EXCEPT ![l] = NoIter]
    /\ UNCHANGED <<state, heap, mem, op, loaded, newCounter, newState, c, res,
                   log, nops, cfg>>
    /\ UNCHANGED <<buf, entries, lv, stop, caller, ticks, started, hist>>

\* _, err := w.Write(p.buf.Bytes()); prettyPrint returns err to the loop,
\* which either returns (the deferred close(done) runs) or goes to its
\* select.  The writer decides whether the write succeeds.  A write is
\* recorded with its bytes (p) and its history: the call's inPlace and title,
\* the entries this call itself collected (own), and whether the store's
\* state was replaced while the call ran (during)
prettyPrintWrite(l) ==
    /\ pc[l] = "pp_write"
    /\ \E ok \in BOOLEAN :
          /\ sink' = [sink EXCEPT ![l] =
                 Append(@, [p |-> buf, ok |-> ok, inPlace |-> lv[l].inPlace,
                            title |-> lv[l].title, own |-> it[l].out,
                            during |-> (state # it[l].st)])]
          /\ IF LoopExits(lv[l].inPlace, ok)
             THEN /\ pc' = [pc EXCEPT ![l] = "exited"]
                  /\ done' = [done EXCEPT ![l] = TRUE]
             ELSE /\ pc' = [pc EXCEPT ![l] = "select"]
                  /\ UNCHANGED done
    /\ it' = [it EXCEPT ![l] = NoIter]
    /\ UNCHANGED <<state, heap, mem, op, loaded, newCounter, newState, c, res,
                   log, nops, cfg>>
    /\ UNCHANGED <<buf, entries, lv, stop, caller, ticks, started, hist>>

(***************************************************************************)
(* PrettyPrintEvery                                                        *)
(***************************************************************************)
\* p.PrettyPrintEvery(w, t, title) is called: the channels are made, the
\* goroutine is started, the stop function is returned
PrettyPrintEvery(l, title) ==
    /\ caller[l] = "none"
    /\ pc' = [pc EXCEPT ![l] = "spawned"]
    /\ lv' = [lv EXCEPT ![l].title = title]
    /\ caller' = [caller EXCEPT ![l] = "holding"]
    /\ UNCHANGED <<state, heap, mem, op, loaded, newCounter, newState, c, it,
                   res, log, nops, cfg>>
    /\ UNCHANGED <<buf, entries, stop, done, ticks, sink, started, hist>>

\* the goroutine starts: the immediate render, in place
LoopFirst(l) ==
    /\ pc[l] = "spawned"
    /\ prettyPrintLoad(l, TRUE)
    /\ UNCHANGED <<state, heap, mem, op, loaded, newCounter, newState, c, res,
                   log, nops, cfg>>
    /\ UNCHANGED <<stop, done, caller, ticks, sink, hist>>

\* a bug: a tick starts a render while the previous one is still running
\* (go p.prettyPrint(...))
LoopTick_Async(l) ==
    /\ pc[l] \in {"select", "pp_visit", "pp_build", "pp_write"}
    /\ ticks[l] < MaxTicks
    /\ ticks' = [ticks EXCEPT ![l] = @ + 1]
    /\ prettyPrintLoad(l, TRUE)
    /\ UNCHANGED <<state, heap, mem, op, loaded, newCounter, newState, c, res,
                   log, nops, cfg>>
    /\ UNCHANGED <<stop, done, caller, sink, hist>>

\* case <-ticker.C: the ticker has sent a tick; a render in place
LoopTick(l) ==
    /\ pc[l] = "select"
    /\ ticks[l] < MaxTicks
    /\ ticks' = [ticks EXCEPT ![l] = @ + 1]
    /\ prettyPrintLoad(l, TRUE)
    /\ UNCHANGED <<state, heap, mem, op, loaded, newCounter, newState, c, res,
                   log, nops, cfg>>
    /\ UNCHANGED <<stop, done, caller, sink, hist>>

\* a bug: the render of the stop case is made in place
LoopStop_InPlace(l) ==
    /\ pc[l] = "select"
    /\ stop[l]
    /\ prettyPrintLoad(l, TRUE)
    /\ UNCHANGED <<state, heap, mem, op, loaded, newCounter, newState, c, res,
                   log, nops, cfg>>
    /\ UNCHANGED <<stop, done, caller, ticks, sink, hist>>

\* case <-stop: the stop channel is closed; the last render, not in place.
\* (When a tick is ready too, select takes either case.)
LoopStop(l) ==
    /\ pc[l] = "select"
    /\ stop[l]
    /\ prettyPrintLoad(l, FALSE)
    /\ UNCHANGED <<state, heap, mem, op, loaded, newCounter, newState, c, res,
                   log, nops, cfg>>
    /\ UNCHANGED <<stop, done, caller, ticks, sink, hist>>

\* the stop function is called: close(stop).  hist[l].at keeps the keys
\* registered and the adds/stores that had taken effect at that moment
StopCall(l) ==
    /\ caller[l] = "holding"
    /\ stop' = [stop EXCEPT ![l] = TRUE]
    /\ caller' = [caller EXCEPT ![l] = "waiting"]
    /\ hist' = [hist EXCEPT ![l].at =
                   [lens |-> LogLens,
                    keys |-> {k \in Keys : Lookup(state, k) # Nil}]]
    /\ UNCHANGED <<state, heap, mem, pc, op, loaded, newCounter, newState, c,
                   it, res, log, nops, cfg>>
    /\ UNCHANGED <<buf, entries, lv, done, ticks, sink, started>>

\* a bug: the stop function returns without waiting for done
StopReturn_NoWait(l) ==
    /\ caller[l] = "waiting"
    /\ caller' = [caller EXCEPT ![l] = "returned"]
    /\ hist' = [hist EXCEPT ![l].ret = Len(sink[l])]
    /\ UNCHANGED <<state, heap, mem, pc, op, loaded, newCounter, newState, c,
                   it, res, log, nops, cfg>>
    /\ UNCHANGED <<buf, entries, lv, stop, done, ticks, sink, started>>

\* <-done; the stop function returns
StopReturn(l) ==
    /\ caller[l] = "waiting"
    /\ done[l]
    /\ caller' = [caller EXCEPT ![l] = "returned"]
    /\ hist' = [hist EXCEPT ![l].ret = Len(sink[l])]
    /\ UNCHANGED <<state, heap, mem, pc, op, loaded, newCounter, newState, c,
                   it, res, log, nops, cfg>>
    /\ UNCHANGED <<buf, entries, lv, stop, done, ticks, sink, started>>

(***************************************************************************)
(* Specifications                                                          *)
(***************************************************************************)
\* a goroutine calls Inc or Set with arguments from the given sets
WriteCall(t, K, D, V) ==
    \/ \E k \in K, d \in D : Inc(t, k, d)
    \/ \E k \in K, v \in V : Set(t, k, v)

\* a goroutine calls Get or ranges over All
ReadCall(t, K) ==
    \/ \E k \in K : Get(t, k)
    \/ All(t)

\* goroutines writing and reading concurrently
Next ==
    \/ \E t \in WriterProcs :
          \/ nops < MaxOps /\ WriteCall(t, Keys, Deltas, Values)
          \/ GetOrCreateRetry(t)
          \/ GetOrCreateCAS(t)
          \/ IncAdd(t)
          \/ SetStore(t)
    \/ \E t \in ReaderProcs :
          \/ nops < MaxOps /\ ReadCall(t, Keys)
          \/ GetValue(t)
          \/ AllVisit(t)

Spec == Init /\ [][Next]_vars

\* one goroutine: every call returns before the next is made (its
\* compare-and-swap never fails, so the loop never makes a second pass)
NextSeq ==
    \/ nops < MaxSeqOps /\ WriteCall(Main, SeqKeys, SeqDeltas, SeqValues)
    \/ nops < MaxSeqOps /\ ReadCall(Main, SeqKeys)
    \/ GetOrCreateCAS(Main)
    \/ IncAdd(Main)
    \/ SetStore(Main)
    \/ GetValue(Main)
    \/ AllVisit(Main)

SpecSeq == Init /\ [][NextSeq]_vars

\* goroutines writing concurrently; a goroutine that is inside a call is
\* eventually scheduled to take the call's next step
Continue(t) ==
    \/ GetOrCreateRetry(t)
    \/ GetOrCreateCAS(t)
    \/ IncAdd(t)
    \/ SetStore(t)

NextWriters ==
    \E t \in WriterProcs :
        \/ nops < MaxOps /\ WriteCall(t, Keys, Deltas, Values)
        \/ Continue(t)

SpecWriters ==
    /\ Init
    /\ [][NextWriters]_vars
    /\ \A t \in WriterProcs : WF_vars(Continue(t))

\* TestConcurrency: N workers add 1 to one key M times each; the test's
\* goroutine reads the key after wg.Wait()
InitStress ==
    \E n \in 1 .. MaxWorkers, m \in 1 .. MaxIters :
        /\ Init!1 /\ Init!2 /\ Init!3 /\ Init!4 /\ Init!5 /\ Init!6 /\ Init!7
        /\ Init!8 /\ Init!9 /\ Init!10 /\ Init!11 /\ Init!12 /\ Init!13
        /\ cfg = [N |-> n, M |-> m]
        /\ InitPrint

IncsBy(t) == Len(SelectSeq(log[HotKey], LAMBDA e : e.by = t))

WorkersDone == \A w \in 1 .. cfg.N : pc[w] = "idle" /\ IncsBy(w) = cfg.M

NextStress ==
    \/ \E w \in 1 .. cfg.N :
          \/ IncsBy(w) < cfg.M /\ Inc(w, HotKey, 1)
          \/ GetOrCreateRetry(w)
          \/ GetOrCreateCAS(w)
          \/ IncAdd(w)
    \/ WorkersDone /\ res[Main].kind = "none" /\ Get(Main, HotKey)
    \/ GetValue(Main)

SpecStress == InitStress /\ [][NextStress]_vars

\* one PrettyPrintEvery call, as in the README's example and in TestPrinting
OnePrinter == {4}

\* "T:", and the empty title
Titles == {<<84, 58>>, <<>>}
TestTitle == {<<84, 58>>}
PrintKeys == {"a", "b"}

\* arguments of Inc and Set while a loop runs
PrintDeltas == {1}
PrintValues == {-100}

\* a bug: closing a closed channel does nothing
ClosePanics_Never(closed) == FALSE

\* close(ch) panics when ch is already closed ("close of closed channel")
ClosePanics(closed) == closed

\* the stop function is called again, by the goroutine that made the first
\* call or by another one, after the first call's close(stop): close(stop)
\* panics and the call goes no further.  hist[l].again counts these calls,
\* hist[l].panics those that panicked.  (Were the close to succeed, the call
\* would go on to receive from done.)
StopAgain(l) ==
    /\ caller[l] \in {"waiting", "returned"}
    /\ hist[l].again < MaxStopAgain
    /\ IF ClosePanics(stop[l])
       THEN hist' = [hist EXCEPT ![l].again = @ + 1, ![l].panics = @ + 1]
       ELSE hist' = [hist EXCEPT ![l].again = @ + 1]
    /\ UNCHANGED <<state, heap, mem, pc, op, loaded, newCounter, newState, c,
                   it, res, log, nops, cfg>>
    /\ UNCHANGED <<buf, entries, lv, stop, done, caller, ticks, sink, started>>

\* the goroutine that called PrettyPrintEvery, and the loop it started
PrintLoop(l, T) ==
    \/ \E title \in T : PrettyPrintEvery(l, title)
    \/ LoopFirst(l)
    \/ LoopTick(l)
    \/ LoopStop(l)
    \/ prettyPrintVisit(l)
    \/ prettyPrintBuild(l)
    \/ prettyPrintWrite(l)
    \/ StopCall(l)
    \/ StopReturn(l)

\* values of different widths: 0, two digits, three digits and a sign
RenderValues == {0, 20, -100}

\* the keys of S in ascending order
RECURSIVE SortKeys(_)
SortKeys(S) ==
    IF S = {} THEN <<>>
    ELSE LET k == CHOOSE x \in S : TRUE
         IN  cloneSortedSliceAndInsert(SortKeys(S \ {k}), k)

\* the store is filled before PrettyPrintEvery is called, as in TestPrinting:
\* a goroutine has called Set once for each key of a set of keys, in
\* ascending order
InitRender ==
    \E S \in SUBSET Keys : \E f \in [S -> RenderValues] :
        LET ks == SortKeys(S)
            n == Len(ks)
        IN  /\ state = n
            /\ heap = [i \in 1 .. n |->
                  [counters |-> [k \in {ks[j] : j \in 1 .. i} |->
                                    CHOOSE j \in 1 .. i : ks[j] = k],
                   sortedKeys |-> SubSeq(ks, 1, i)]]
            /\ mem = [i \in 1 .. n |-> f[ks[i]]]
            /\ Init!4 /\ Init!5 /\ Init!6 /\ Init!7 /\ Init!8 /\ Init!9
            /\ Init!10 /\ Init!11
            /\ log = [k \in Keys |->
                  IF k \in S
                  THEN <<[kind |-> "set", arg |-> f[k], by |-> Main]>>
                  ELSE <<>>]
            /\ nops = n
            /\ Init!14
            /\ InitPrint

\* one loop renders a store nobody writes
NextRender == \E l \in OnePrinter : PrintLoop(l, Titles)

SpecRender == InitRender /\ [][NextRender]_vars

\* the store holds a = 20
InitOneCounter ==
    /\ InitRender
    /\ state = 1
    /\ heap[1].sortedKeys = <<"a">>
    /\ mem = <<20>>

\* a worker goroutine writes while one loop renders a store that holds a
\* counter (nops counts the Set that registered it)
NextPrint ==
    \/ \E t \in {1} :
          \/ nops <= MaxPrintOps /\ WriteCall(t, PrintKeys, PrintDeltas, PrintValues)
          \/ GetOrCreateCAS(t)
          \/ IncAdd(t)
          \/ SetStore(t)
    \/ \E l \in OnePrinter : PrintLoop(l, TestTitle)

SpecPrint == InitOneCounter /\ [][NextPrint]_vars

\* the steps the goroutine of loop l takes by itself: the first render, the
\* stop case once stop is closed, and the steps of a render, the return of
\* w.Write included
LoopStep(l) ==
    \/ LoopFirst(l)
    \/ LoopStop(l)
    \/ prettyPrintVisit(l)
    \/ prettyPrintBuild(l)
    \/ prettyPrintWrite(l)

\* the loop's goroutine and the goroutine blocked in <-done are scheduled,
\* and every w.Write returns
SpecPrintLive ==
    /\ SpecPrint
    /\ \A l \in OnePrinter : WF_vars(LoopStep(l)) /\ WF_vars(StopReturn(l))

\* a worker goroutine and one loop whose stop function is called more than
\* once
NextStopTwice ==
    \/ NextPrint
    \/ \E l \in OnePrinter : StopAgain(l)

SpecStopTwice == InitOneCounter /\ [][NextStopTwice]_vars

\* two PrettyPrintEvery calls on the same Progress
NextTwoPrinters == \E l \in Printers : PrintLoop(l, TestTitle)

SpecTwoPrinters == InitOneCounter /\ [][NextTwoPrinters]_vars

(***************************************************************************)
(* Properties                                                              *)
(***************************************************************************)
\* the names one run of the iterator yielded, in order
Names(out) == [i \in 1 .. Len(out) |-> out[i].key]

Range(f) == {f[i] : i \in DOMAIN f}

StrictlyAscending(names) ==
    \A i \in 1 .. Len(names) - 1 : StrLess(names[i], names[i + 1])

\* a compare-and-swap has failed: a cell was allocated for a swap that lost
SomeSwapFailed == Len(mem) > Len(heap) + Cardinality({t \in Threads : pc[t] = "cas"})

\* C1: N workers each calling Inc(key, 1) M times on an empty Progress, racing
\* to create the key: once all have finished, Get(key) returns N*M.
C1_StressTotal ==
    res[Main].kind = "get" => res[Main].val = cfg.N * cfg.M

\* two workers, two calls each, and one of them lost the race to create the key
C1_Witness ==
    /\ res[Main].kind = "get"
    /\ cfg.N = 2 /\ cfg.M = 2
    /\ SomeSwapFailed

\* C2: under any interleaving of Inc and Set, each counter's value is the
\* sequential replay, from 0, of the adds/stores addressed to it in the order
\* they took effect: none is lost, none applied twice (in every state, so in
\* the final one).
C2_ValueIsReplay ==
    \A k \in Keys : ValueNow(k) = Replay(log[k])

\* all calls have returned, two goroutines wrote one key, and a swap failed
C2_Witness ==
    /\ Writers = {}
    /\ SomeSwapFailed
    /\ \E k \in Keys : \E i, j \in 1 .. Len(log[k]) : log[k][i].by # log[k][j].by

\* how many published states gave key a cell it did not have in the state before
Installs(key) ==
    Cardinality({i \in 1 .. Len(heap) :
        /\ key \in DOMAIN heap[i].counters
        /\ \/ i = 1
           \/ key \notin DOMAIN heap[i - 1].counters
           \/ heap[i - 1].counters[key] # heap[i].counters[key]})

\* C3: every goroutine that getOrCreateCounter has returned a cell to holds
\* the cell the current state maps its key to, and exactly one swap installed
\* a cell for that key: racing creators of one key all get the winner's cell.
C3_SameSlot ==
    \A t \in Threads :
        pc[t] = "write" =>
            /\ c[t] = Lookup(state, op[t].key)
            /\ Installs(op[t].key) = 1

\* two goroutines raced to create one key, one swap failed, both hold its cell
C3_Witness ==
    /\ Len(heap) = 1
    /\ Len(mem) = 2
    /\ \E t, u \in Threads :
          /\ t # u
          /\ pc[t] = "write" /\ pc[u] = "write"
          /\ op[t].key = op[u].key
          /\ c[t] = c[u]

\* goroutine t takes a step of a Get on key
GetActs(t, key) ==
    \/ res'[t] # res[t] /\ res'[t].kind = "get" /\ res'[t].key = key
    \/ op'[t] # op[t] /\ op'[t].kind = "get" /\ op'[t].key = key

\* C4: a Get of a name never passed to Inc or Set (on a nil state too)
\* returns 0 and leaves the store as it was: the state pointer, the
\* published states, every cell, size() and every counter's value.
C4_GetNeverUsed ==
    [][\A t \in Threads, k \in Keys :
          GetActs(t, k) /\ k \notin UsedKeys =>
              /\ res'[t].kind = "get" /\ res'[t].val = 0
              /\ UNCHANGED <<state, heap, mem>>
              /\ size' = size
              /\ \A j \in Keys : ValueNow(j)' = ValueNow(j)]_vars

\* Get returned for a name never used, on a store that has other names
C4_Witness ==
    \E t \in Threads :
        /\ res[t].kind = "get"
        /\ res[t].key \notin UsedKeys
        /\ res[t].val = 0
        /\ state # Nil

\* C5: in one goroutine, Get(name) returns d after Inc(name, d) on a
\* never-used name, and v + d - e after Set(name, v), Inc(name, d),
\* Inc(name, -e), whatever was done to other names in between.
C5_SetIncInc ==
    res[Main].kind = "get" =>
        LET l == log[res[Main].key]
        IN  /\ Len(l) = 1 /\ l[1].kind = "inc" => res[Main].val = l[1].arg
            /\ (/\ Len(l) = 3
                /\ l[1].kind = "set" /\ l[2].kind = "inc" /\ l[3].kind = "inc")
               => res[Main].val = l[1].arg + l[2].arg - (0 - l[3].arg)

\* Set(name, 5), Inc(name, 1), Inc(name, -2) with a call on another name, then Get
C5_Witness ==
    /\ res[Main].kind = "get"
    /\ res[Main].val = 4
    /\ LET l == log[res[Main].key]
       IN  /\ Len(l) = 3
           /\ l[1].kind = "set" /\ l[1].arg = 5
           /\ l[2].kind = "inc" /\ l[2].arg = 1
           /\ l[3].kind = "inc" /\ l[3].arg = -2
    /\ \E k \in Keys : k # res[Main].key /\ log[k] # <<>>

\* C6: after Inc and Set calls that have all returned, All() yields each name
\* once, in strictly ascending byte order, and the names are exactly those
\* passed to Inc or Set (none on a zero Progress).
C6_AllSortedExact ==
    res[Main].kind = "all" =>
        LET names == Names(res[Main].out)
        IN  /\ StrictlyAscending(names)
            /\ Range(names) = UsedKeys
            /\ Len(names) = Cardinality(UsedKeys)

\* three names, created in an order that is not the sorted one
C6_Witness ==
    /\ res[Main].kind = "all"
    /\ Len(res[Main].out) = 3
    /\ heap[1].sortedKeys = <<"b">>
    /\ heap[2].sortedKeys = <<"a", "b">>

\* C7: the value a Get returns is the replay of a prefix of the key's
\* adds/stores that contains every one that had taken effect (so: whose call
\* had returned) when the Get loaded the state.
C7_GetObserves ==
    \A t \in Threads :
        res[t].kind = "get" =>
            \E n \in res[t].lo .. res[t].hi :
                res[t].val = Replay(SubSeq(log[res[t].key], 1, n))

\* a Get that started after an Inc by another goroutine had returned
C7_Witness ==
    \E t \in Threads :
        /\ res[t].kind = "get"
        /\ res[t].lo >= 1
        /\ res[t].val # 0
        /\ \E i \in 1 .. res[t].lo :
              /\ log[res[t].key][i].kind = "inc"
              /\ log[res[t].key][i].by # t

\* C8: one run of the iterator yields exactly the names of the state it
\* loaded at its start, in that state's order, whatever keys are created
\* meanwhile; a run in progress has yielded a prefix of them.
C8_AllNamesOfLoadedState ==
    \A t \in Threads :
        /\ res[t].kind = "all" /\ res[t].st # Nil =>
              /\ Names(res[t].out) = heap[res[t].st].sortedKeys
              /\ Range(Names(res[t].out)) = DOMAIN heap[res[t].st].counters
        /\ pc[t] = "all_visit" =>
              Names(it[t].out) = SubSeq(heap[it[t].st].sortedKeys, 1, Len(it[t].out))

\* a run during which another goroutine created a key
C8_Witness ==
    \E t \in Threads :
        /\ res[t].kind = "all"
        /\ res[t].st # Nil
        /\ res[t].end # res[t].st

\* what a run of the iterator has yielded so far
Yielded(t) ==
    IF pc[t] = "all_visit" THEN it[t].out
    ELSE IF res[t].kind = "all" THEN res[t].out
    ELSE <<>>

\* C9: each value All() yields is the value the counter held when its key
\* was visited: the replay of the adds/stores that had then taken effect,
\* those completed during the iteration included.
C9_ValueAtVisit ==
    \A t \in Threads :
        \A i \in 1 .. Len(Yielded(t)) :
            LET e == Yielded(t)[i]
            IN  e.value = Replay(SubSeq(log[e.key], 1, e.seen))

\* a yielded value reflects a write that took effect after the state was loaded
C9_Witness ==
    \E t \in Threads :
        /\ res[t].kind = "all"
        /\ \E i \in 1 .. Len(res[t].out) :
              LET e == res[t].out[i]
              IN  /\ e.seen > res[t].at.lens[e.key]
                  /\ e.value # Replay(SubSeq(log[e.key], 1, res[t].at.lens[e.key]))

\* the calls made so far that write key: those that took effect and those in progress
WritesTo(key) ==
    Range(log[key]) \cup
    {[kind |-> op[t].kind, arg |-> op[t].arg, by |-> t] :
        t \in {w \in Writers : op[w].key = key}}

\* C10: Set on a key that does not exist creates it with the given value:
\* when the only call that ever wrote a key is one Set(key, value), no run
\* of All() yields the key with another value.  (Get returns 0 for a key
\* that is not registered, so a Get cannot tell a key registered with 0
\* from a missing one; a run of All() can.)
C10_SetCreatesWithValue ==
    \A t \in Threads :
        \A i \in 1 .. Len(Yielded(t)) :
            LET e == Yielded(t)[i]
            IN  \A w \in WritesTo(e.key) :
                    WritesTo(e.key) = {w} /\ w.kind = "set" => e.value = w.arg

(***************************************************************************)
(* Properties of the renderer                                              *)
(***************************************************************************)
Last(s) == s[Len(s)]

\* a prettyPrint call of loop l is running
InRender(l) == pc[l] \in {"pp_visit", "pp_build", "pp_write"}

\* every write of an immediate or tick render of loop l succeeded
PeriodicWritesOk(l) ==
    \A i \in 1 .. Len(sink[l]) : sink[l][i].inPlace => sink[l][i].ok

\* write w of loop l shows the store as it was when the stop function was
\* called or later: every key registered then has an entry, and every entry
\* holds a value its counter had after the adds/stores made by then
ReflectsStop(l, w) ==
    /\ \A k \in hist[l].at.keys : \E i \in 1 .. Len(w.own) : w.own[i].key = k
    /\ \A i \in 1 .. Len(w.own) :
          LET e == w.own[i]
          IN  /\ e.seen >= hist[l].at.lens[e.key]
              /\ e.value = Replay(SubSeq(log[e.key], 1, e.seen))

\* the last write of loop l is a render made with inPlace = false that shows
\* the store as of the stop call
LastIsFinalRender(l) ==
    /\ sink[l] # <<>>
    /\ ~Last(sink[l]).inPlace
    /\ ReflectsStop(l, Last(sink[l]))

\* C11 as stated: once the stop function has returned, the last write to the
\* sink is a non-in-place render reflecting the store at stop time, and no
\* write is made after the return.
C11_StopAlwaysFinalRender ==
    \A l \in Printers :
        caller[l] = "returned" =>
            /\ LastIsFinalRender(l)
            /\ Len(sink[l]) = hist[l].ret

\* C11, amended: once the stop function has returned, no write is made to the
\* sink any more (the loop has ended, the writes number what they did at the
\* return); and if no write of an immediate or tick render had failed, the
\* last write is a non-in-place render reflecting the store at stop time.
C11_StopFinalRenderUnlessFailed ==
    \A l \in Printers :
        caller[l] = "returned" =>
            /\ pc[l] = "exited"
            /\ Len(sink[l]) = hist[l].ret
            /\ PeriodicWritesOk(l) => LastIsFinalRender(l)

\* the stop function returned after an immediate, a tick and a final render,
\* and the final render shows a counter added after the first render
C11_Witness ==
    \E l \in Printers :
        /\ caller[l] = "returned"
        /\ Len(sink[l]) = 3
        /\ PeriodicWritesOk(l)
        /\ Len(Last(sink[l]).own) > Len(sink[l][1].own)

\* C12: the renders of one loop whose writes all succeed are: an immediate
\* in-place render, one in-place render per tick, then, only once stop is
\* closed, exactly one non-in-place render, which is the last; done is closed
\* exactly after it.
C12_RenderSequence ==
    \A l \in Printers :
        (\A i \in 1 .. Len(sink[l]) : sink[l][i].ok) =>
            /\ \A i \in 1 .. Len(sink[l]) :
                  ~sink[l][i].inPlace => i = Len(sink[l]) /\ i >= 2 /\ stop[l]
            /\ done[l] <=> (sink[l] # <<>> /\ ~Last(sink[l]).inPlace)
            /\ pc[l] \in {"select", "exited"} =>
                  Cardinality({i \in 1 .. Len(sink[l]) : sink[l][i].inPlace})
                      = 1 + ticks[l]

\* a loop that made its immediate render, a tick render and the final one
C12_Witness ==
    \E l \in Printers :
        /\ done[l]
        /\ Len(sink[l]) = 3
        /\ \A i \in 1 .. 3 : sink[l][i].ok
        /\ ticks[l] = 1

\* the [key, value] pairs a prettyPrint call itself collected
Pairs(own) == [i \in 1 .. Len(own) |-> [key |-> own[i].key, value |-> own[i].value]]

\* the widest name and the widest value among the entries
MaxKeyOf(own) ==
    IF own = <<>> THEN 0
    ELSE CHOOSE n \in {Len(KeyBytes(own[i].key)) : i \in 1 .. Len(own)} :
             \A i \in 1 .. Len(own) : Len(KeyBytes(own[i].key)) <= n

MaxValueOf(own) ==
    IF own = <<>> THEN 0
    ELSE CHOOSE n \in {digitCount(own[i].value) : i \in 1 .. Len(own)} :
             \A i \in 1 .. Len(own) : digitCount(own[i].value) <= n

\* a blank line, the title line, the counter lines and a trailing blank line
PlainReport(w) ==
    LF \o w.title \o LF
       \o EntryLines(Pairs(w.own), MaxKeyOf(w.own), MaxValueOf(w.own))
       \o LF

\* C13: the output of a non-in-place render is exactly a blank line, the title
\* line, the counter lines and a trailing blank line, with neither ESC[J nor
\* ESC[<n>A; the output of an in-place render is that text preceded by ESC[J
\* and followed by the cursor-up sequence.
C13_FinalRenderPlain ==
    \A l \in Printers : \A i \in 1 .. Len(sink[l]) :
        LET w == sink[l][i]
        IN  IF w.inPlace
            THEN w.p = ClearToEnd \o PlainReport(w)
                           \o CSI \o WriteInt64(Len(w.own) + 3) \o CursorUpEnd
            ELSE w.p = PlainReport(w)

\* the pieces of p between its line feeds (the last one is what follows the
\* last line feed)
SplitLF(p) ==
    LET pos == {i \in 1 .. Len(p) : p[i] = 10}
        n == Cardinality(pos)
        at(j) == IF j = 0 THEN 0
                 ELSE IF j = n + 1 THEN Len(p) + 1
                 ELSE CHOOSE i \in pos : Cardinality({h \in pos : h < i}) = j - 1
    IN  [j \in 1 .. n + 1 |-> SubSeq(p, at(j - 1) + 1, at(j) - 1)]

\* the counter lines of a written buffer: what lies between the title line
\* (the second line) and the blank line that ends the report
CounterLines(p) == LET ls == SplitLF(p) IN SubSeq(ls, 3, Len(ls) - 2)

\* the number written in decimal by a sequence of digits
RECURSIVE Atoi(_)
Atoi(d) ==
    IF d = <<>> THEN 0
    ELSE 10 * Atoi(SubSeq(d, 1, Len(d) - 1)) + (d[Len(d)] - 48)

IsDigits(d) == d # <<>> /\ \A i \in 1 .. Len(d) : d[i] \in 48 .. 57

\* the decimal text t writes the integer v: digits, after a minus sign when
\* v < 0, without leading zeros
WritesDecimal(t, v) ==
    LET d == IF v < 0 THEN Tail(t) ELSE t
    IN  /\ t # <<>>
        /\ v < 0 => Head(t) = 45
        /\ IsDigits(d)
        /\ Len(d) > 1 => Head(d) # 48
        /\ Atoi(d) = (IF v < 0 THEN -v ELSE v)

\* the width of a value: its number of decimal digits, plus one if negative;
\* 0 has width 1
RECURSIVE NumDigits(_)
NumDigits(n) == IF n < 10 THEN 1 ELSE 1 + NumDigits(n \div 10)

ValueWidth(v) == IF v < 0 THEN NumDigits(-v) + 1 ELSE NumDigits(v)

Spaces(t) == \A i \in 1 .. Len(t) : t[i] = 32

\* line is: two spaces, the name, spaces up to nameWidth, two spaces, the
\* value in decimal after spaces so as to fill valueWidth
IsCounterLine(line, name, value, nameWidth, valueWidth) ==
    LET n == Len(KeyBytes(name))
        vw == ValueWidth(value)
    IN  /\ Len(line) = 2 + nameWidth + 2 + valueWidth
        /\ Spaces(SubSeq(line, 1, 2))
        /\ SubSeq(line, 3, 2 + n) = KeyBytes(name)
        /\ Spaces(SubSeq(line, 3 + n, Len(line) - vw))
        /\ WritesDecimal(SubSeq(line, Len(line) - vw + 1, Len(line)), value)

\* the keys registered in the store, and the largest of a set of numbers
Registered == {k \in Keys : Lookup(state, k) # Nil}

SetMax(S) == IF S = {} THEN 0 ELSE CHOOSE n \in S : \A m \in S : m <= n

\* C14: a render emits one line per counter, in ascending name order, each
\* made of two spaces, the name padded with spaces to the longest name, two
\* spaces, and the value in decimal right-aligned to the widest value (width:
\* digit count, plus one if negative; 0 has width 1); for {a: 20, ab: -100,
\* b: 0} the lines are "  a     20", "  ab  -100", "  b      0".
C14_CounterLines ==
    \A l \in Printers : \A i \in 1 .. Len(sink[l]) :
        LET w == sink[l][i]
            lines == CounterLines(w.p)
            nameWidth == SetMax({Len(KeyBytes(k)) : k \in Registered})
            valueWidth == SetMax({ValueWidth(ValueNow(k)) : k \in Registered})
        IN  /\ Len(lines) = Cardinality(Registered)
            /\ \A j \in 1 .. Len(lines) :
                  \E k \in Registered :
                      /\ Cardinality({h \in Registered : StrLess(h, k)}) = j - 1
                      /\ IsCounterLine(lines[j], k, ValueNow(k),
                                       nameWidth, valueWidth)
            /\ (Registered = {"a", "ab", "b"} /\ ValueNow("a") = 20
                    /\ ValueNow("ab") = -100 /\ ValueNow("b") = 0)
                  => lines = << <<32, 32, 97, 32, 32, 32, 32, 32, 50, 48>>,
                                <<32, 32, 97, 98, 32, 32, 45, 49, 48, 48>>,
                                <<32, 32, 98, 32, 32, 32, 32, 32, 32, 48>> >>

\* the store {a: 20, ab: -100, b: 0} has been rendered in place and not
C14_Witness ==
    \E l \in Printers :
        /\ Registered = {"a", "ab", "b"}
        /\ ValueNow("a") = 20 /\ ValueNow("ab") = -100 /\ ValueNow("b") = 0
        /\ Len(sink[l]) = 3
        /\ ~Last(sink[l]).inPlace

\* the number n of the cursor-up sequence "\033[<n>A" that ends p (-1 when p
\* does not end with one)
CursorUpOf(p) ==
    LET t == Last(SplitLF(p))
        d == SubSeq(t, 3, Len(t) - 1)
    IN  IF Len(t) >= 4 /\ SubSeq(t, 1, 2) = CSI /\ Last(t) = 65 /\ IsDigits(d)
        THEN Atoi(d)
        ELSE -1

\* C15: in every in-place render the number in the trailing cursor-up
\* sequence is the number of counter lines written in that render plus 3,
\* also when counters are added while the render runs.
C15_CursorUpMatchesLines ==
    \A l \in Printers : \A i \in 1 .. Len(sink[l]) :
        LET w == sink[l][i]
            lines == CounterLines(w.p)
        IN  w.inPlace =>
                /\ CursorUpOf(w.p) = Len(lines) + 3
                /\ \A j \in 1 .. Len(lines) : SubSeq(lines[j], 1, 2) = Indent

\* an in-place render with a counter line went out although a key was added
\* to the store while it ran
C15_Witness ==
    \E l \in Printers : \E i \in 1 .. Len(sink[l]) :
        /\ sink[l][i].inPlace
        /\ sink[l][i].during
        /\ sink[l][i].own # <<>>
        /\ size > Len(sink[l][i].own)

\* C16: when the write of an immediate or tick render returns an error, the
\* loop stops: that write is the last one the loop attempts (no retry, no
\* further render is begun) and done is closed.
C16_FailedWriteEndsLoop ==
    \A l \in Printers : \A i \in 1 .. Len(sink[l]) :
        (sink[l][i].inPlace /\ ~sink[l][i].ok) =>
            /\ i = Len(sink[l])
            /\ started[l] = i
            /\ pc[l] = "exited"
            /\ done[l]

\* the write of a tick render failed; the stop function was called later and
\* has returned
C16_Witness ==
    \E l \in Printers :
        /\ Len(sink[l]) = 2
        /\ sink[l][1].ok
        /\ sink[l][2].inPlace /\ ~sink[l][2].ok
        /\ caller[l] = "returned"

\* C18: within one loop at most one render is in flight: a render is begun
\* only after the write of every render begun before it has returned.
C18_OneRenderInFlight ==
    \A l \in Printers :
        /\ started[l] <= Len(sink[l]) + 1
        /\ started[l] = Len(sink[l]) + 1 <=> InRender(l)

\* the third render of a loop is running; two writes have returned
C18_Witness ==
    \E l \in Printers :
        /\ InRender(l)
        /\ started[l] = 3
        /\ Len(sink[l]) = 2

\* a goroutine started by PrettyPrintEvery takes a step
PrinterSteps ==
    \E l \in Printers : pc'[l] # pc[l] \/ it'[l] # it[l]

\* C19: rendering never mutates the store: no step of a prettyPrint call (in
\* place or not, its write succeeding or failing) changes the state
\* reference, a published state, or a counter cell (none is created, none
\* changes value).
C19_RenderLeavesStore ==
    [][PrinterSteps => UNCHANGED <<state, heap, mem, log>>]_vars

\* renders in place and not, one with a failed write, of a store that holds
\* a counter
C19_Witness ==
    \E l \in Printers :
        /\ Len(sink[l]) = 3
        /\ ~Last(sink[l]).inPlace /\ ~Last(sink[l]).ok
        /\ \A i \in 1 .. 3 : sink[l][i].own # <<>>

CountLF(p) == Cardinality({i \in 1 .. Len(p) : p[i] = 10})

\* p is one whole render: the clear sequence, a blank line, the title line,
\* n counter lines, a blank line and, in place, the cursor-up sequence
WholeRender(p, title, n, inPlace) ==
    LET ls == SplitLF(p)
    IN  /\ CountLF(p) = n + 3
        /\ SubSeq(p, 1, Len(ClearToEnd) + 1 + Len(title) + 1)
               = ClearToEnd \o LF \o title \o LF
        /\ ls[n + 3] = <<>>
        /\ IF inPlace THEN CursorUpOf(p) = n + 3 ELSE Last(ls) = <<>>

\* C20: each render makes exactly one Write call, whose buffer holds the
\* whole output of that render; a loop that has made k renders has made k
\* Write calls.
C20_OneWritePerRender ==
    \A l \in Printers :
        /\ Len(sink[l]) = started[l] - (IF InRender(l) THEN 1 ELSE 0)
        /\ \A i \in 1 .. Len(sink[l]) :
              LET w == sink[l][i]
              IN  WholeRender(w.p, w.title, Len(w.own), w.inPlace)

\* a loop has ended after three renders of a store that holds a counter
C20_Witness ==
    \E l \in Printers :
        /\ pc[l] = "exited"
        /\ started[l] = 3
        /\ \A i \in 1 .. Len(sink[l]) : sink[l][i].own # <<>>

\* what a prettyPrint call that collected the entries own writes when no
\* other call touches p.buf and p.entries
RenderOf(title, own, inPlace) ==
    ClearToEnd \o LF \o title \o LF
        \o EntryLines(Pairs(own), MaxKeyOf(own), MaxValueOf(own))
        \o LF
        \o (IF inPlace
            THEN CSI \o WriteInt64(Len(own) + 3) \o CursorUpEnd
            ELSE <<>>)

\* C17: two PrettyPrintEvery loops running concurrently on one Progress do
\* not disturb each other's scratch state (output buffer, entries list):
\* every buffer written to a sink is one complete render, the render of the
\* entries the writing call itself read from the store.
C17_ConcurrentRendersWellFormed ==
    \A l \in Printers : \A i \in 1 .. Len(sink[l]) :
        LET w == sink[l][i]
        IN  w.p = RenderOf(w.title, w.own, w.inPlace)

(***************************************************************************)
(* Properties of the published states                                      *)
(***************************************************************************)
\* the keys and the cells of a progressState
KeysOf(s) == DOMAIN s.counters

CellsOf(s) == {s.counters[k] : k \in DOMAIN s.counters}

\* the state a published state replaced (heap is in publication order; the
\* first one replaced the nil state)
KeysBefore(i) == IF i = 1 THEN {} ELSE KeysOf(heap[i - 1])

\* C21: in every state ever published through p.state, sortedKeys holds
\* exactly the keys of counters, without duplicates, in strictly ascending
\* byte order (a reader loads fully formed states only).
C21_PublishedStatesSorted ==
    \A i \in 1 .. Len(heap) :
        /\ Range(heap[i].sortedKeys) = KeysOf(heap[i])
        /\ Len(heap[i].sortedKeys) = Cardinality(KeysOf(heap[i]))
        /\ StrictlyAscending(heap[i].sortedKeys)

\* three keys were published, the first of them not the smallest, and a
\* swap failed on the way
C21_Witness ==
    /\ Len(heap) = 3
    /\ heap[1].sortedKeys # <<"a">>
    /\ SomeSwapFailed

\* C22: slots are never replaced: a key that a published state maps to a
\* cell is mapped to the same cell by every state published later, so the
\* cell a goroutine obtained earlier is the one the current state holds for
\* its key, however often the state was replaced since.
C22_SlotsNeverReplaced ==
    /\ \A i \in 1 .. Len(heap) : \A j \in i .. Len(heap) :
          \A k \in KeysOf(heap[i]) :
              k \in KeysOf(heap[j]) /\ heap[j].counters[k] = heap[i].counters[k]
    /\ \A t \in Threads :
          pc[t] \in {"write", "get_value"} =>
              c[t] = heap[Len(heap)].counters[op[t].key]

\* a goroutine holds the cell of a key, obtained from the first state, and
\* the state has been replaced twice since
C22_Witness ==
    \E t \in Threads :
        /\ pc[t] = "write"
        /\ Len(heap) = 3
        /\ c[t] \in CellsOf(heap[1])

Orphans ==
    {cell \in 1 .. Len(mem) :
        /\ \A i \in 1 .. Len(heap) : cell \notin CellsOf(heap[i])
        /\ \A t \in Threads : pc[t] = "cas" => newCounter[t] # cell}

\* C27: no Inc or Set writes to an orphaned cell: the cell getOrCreateCounter
\* returned is held by a published state, and a cell allocated for a swap
\* that failed is held by no goroutine and keeps its initial 0.
C27_NoOrphanWrites ==
    /\ \A t \in Threads :
          pc[t] = "write" =>
              \E i \in 1 .. Len(heap) : c[t] \in CellsOf(heap[i])
    /\ \A cell \in Orphans :
          /\ mem[cell] = 0
          /\ \A t \in Threads : c[t] # cell

\* two goroutines raced to create a key; the loser's cell is orphaned and
\* both have written to the winner's
C27_Witness ==
    /\ Orphans # {}
    /\ Writers = {}
    /\ \E k \in Keys : \E i, j \in 1 .. Len(log[k]) : log[k][i].by # log[k][j].by

\* the swaps that have failed so far: every pass that does not find its key
\* allocates a cell, every successful swap publishes one state
FailedSwaps ==
    Len(mem) - Len(heap) - Cardinality({t \in Threads : pc[t] = "cas"})

\* C24: a swap fails only if a state was published after the one the call
\* had loaded; the failed swaps number at most the goroutines times the keys
\* created; and every Inc/Set call returns (the keys being finitely many).
C24_RetriesBounded ==
    /\ [](FailedSwaps <= Cardinality(WriterProcs) * size)
    /\ [][\A t \in WriterProcs :
             (pc[t] = "cas" /\ pc'[t] = "goc") => loaded[t] < Len(heap)]_vars
    /\ \A t \in WriterProcs : (pc[t] # "idle") ~> (pc[t] = "idle")

\* one call failed its swap twice, and every call has returned
C24_Witness ==
    /\ FailedSwaps = 2
    /\ Len(heap) = 3
    /\ Writers = {}

\* goroutine t makes a pass of getOrCreateCounter (the first of a call of
\* Inc or Set, or one after a failed swap) and the state it loads has its key
FastPass(t) ==
    /\ pc[t] \in {"idle", "goc"}
    /\ pc'[t] # pc[t]
    /\ op'[t].kind \in {"inc", "set"}
    /\ Lookup(state, op'[t].key) # Nil

\* goroutine t performs the add or store of its call
WriteStep(t) == pc[t] = "write" /\ pc'[t] = "idle"

\* C25: Inc or Set on a key present in the state it loads takes the fast
\* path: the pass returns the existing cell without a compare-and-swap
\* and without allocating, leaves the state reference and the published
\* states (key set, sortedKeys) as they are, and the call then changes the
\* value of that key's cell only.
C25_FastPathFrame ==
    [][\A t \in Threads :
          /\ FastPass(t) =>
                /\ pc'[t] = "write"
                /\ c'[t] = Lookup(state, op'[t].key)
                /\ UNCHANGED <<state, heap, mem>>
          /\ WriteStep(t) =>
                /\ UNCHANGED <<state, heap>>
                /\ Len(mem') = Len(mem)
                /\ \A cell \in 1 .. Len(mem) :
                      cell # Lookup(state, op[t].key) => mem'[cell] = mem[cell]
                /\ \A k \in Keys \ {op[t].key} : ValueNow(k)' = ValueNow(k)]_vars

\* a key has been written twice and only one cell was ever allocated: the
\* second call found the key in the state it loaded; another call is adding
\* a key
C25_Witness ==
    \E k \in Keys :
        /\ Len(log[k]) = 2
        /\ Len(heap) = 1
        /\ Len(mem) = 1

\* the values of a sequence
Elems(s) == {s[i] : i \in 1 .. Len(s)}

\* s is strictly ascending (sorted and without duplicates)
Ascending(s) == \A i \in 1 .. Len(s) - 1 : StrLess(s[i], s[i + 1])

\* C26: for a sorted duplicate-free s and v not in s,
\* cloneSortedSliceAndInsert(s, v) is a sequence of length len(s)+1 equal to
\* the full sort of the values of s and v, which is what rebuildSortedKeys
\* computes from the new map; s, the key list of the published state, is
\* left as it was.
C26_InsertEqualsSort ==
    /\ [](\A t \in Threads :
            (pc[t] = "cas" /\ loaded[t] # Nil) =>
                LET s == heap[loaded[t]].sortedKeys
                    v == op[t].key
                    r == newState[t].sortedKeys
                IN  (Ascending(s) /\ v \notin Elems(s)) =>
                        /\ r = cloneSortedSliceAndInsert(s, v)
                        /\ Len(r) = Len(s) + 1
                        /\ r = Sorted(Elems(s) \cup {v})
                        /\ r = rebuildSortedKeys(newState[t].counters))
    /\ [][\A i \in 1 .. Len(heap) : heap'[i].sortedKeys = heap[i].sortedKeys]_vars

\* "ab" is being inserted between "a" and "b"
C26_Witness ==
    \E t \in WriterProcs :
        /\ pc[t] = "cas"
        /\ loaded[t] # Nil
        /\ heap[loaded[t]].sortedKeys = <<"a", "b">>
        /\ op[t].key = "ab"
        /\ newState[t].sortedKeys = <<"a", "ab", "b">>

\* C28: the widths and the lines of a render come from one pass over All():
\* when the lines are written, every padding count (maxKeySize - len(key),
\* maxValueSize - digitCount(value)) is non-negative, and every counter line
\* of every write is as long as the indents, the widest key and the widest
\* value the render collected, so all counter lines of a write have the same
\* length, whatever other goroutines do to the counters meanwhile.
C28_WidthsFromOnePass ==
    \A l \in Printers :
        /\ pc[l] = "pp_build" =>
              \A i \in 1 .. Len(entries) :
                  /\ lv[l].maxKeySize - Len(KeyBytes(entries[i].key)) >= 0
                  /\ lv[l].maxValueSize - digitCount(entries[i].value) >= 0
        /\ \A n \in 1 .. Len(sink[l]) :
              LET w == sink[l][n]
                  ls == CounterLines(w.p)
              IN  /\ Len(ls) = Len(w.own)
                  /\ \A i \in 1 .. Len(ls) :
                        Len(ls[i]) = Len(Indent) + MaxKeyOf(w.own)
                                         + Len(Indent) + MaxValueOf(w.own)
                  /\ \A i, j \in 1 .. Len(ls) : Len(ls[i]) = Len(ls[j])

\* a render measured counter a as 20 and built its buffer and, before the
\* buffer is handed to the writer, another goroutine stored -100, which is
\* wider
C28_Witness ==
    \E l \in Printers :
        /\ pc[l] = "pp_write"
        /\ entries = <<[key |-> "a", value |-> 20]>>
        /\ lv[l].maxValueSize = 2
        /\ ValueNow("a") = -100

\* C29: when every w.Write returns, with success or with an error, a call
\* of the stop function returns: also when the loop had already returned
\* after a failed write, and when the write of the last render fails.
C29_StopReturns ==
    \A l \in OnePrinter : (caller[l] = "waiting") ~> (caller[l] = "returned")

\* the stop function has returned although the last write the loop made was
\* a periodic one that failed: the loop returned on the error and closed done
C29_Witness ==
    \E l \in OnePrinter :
        /\ caller[l] = "returned"
        /\ sink[l] # <<>>
        /\ Last(sink[l]).inPlace
        /\ ~Last(sink[l]).ok

\* the writes of loop l that were made by a render not in place
PlainWrites(l) == {n \in 1 .. Len(sink[l]) : ~sink[l][n].inPlace}

\* C30: the stop function is for one call: every further call, after the
\* first has returned or while it waits, panics in close(stop), and it starts
\* no render: the step changes nothing of the loop, the loop makes at most
\* one render that is not in place, and at most one render per tick besides
\* the first and the last.
C30_StopSingleUse ==
    /\ [](\A l \in Printers :
            /\ hist[l].panics = hist[l].again
            /\ Cardinality(PlainWrites(l)) <= 1
            /\ started[l] <= ticks[l] + 2)
    /\ [][\A l \in Printers :
            hist'[l].again # hist[l].again =>
                UNCHANGED <<pc, stop, done, caller, ticks, sink, started,
                            buf, entries, lv, it>>]_vars

\* a second call panicked while the first waits for done and the last
\* render is about to be written; no other render follows it
C30_Witness ==
    \E l \in Printers :
        /\ hist[l].panics = 1
        /\ caller[l] = "waiting"
        /\ pc[l] = "pp_write"
        /\ ~lv[l].inPlace

====
